---- MODULE Spec2Model ----
(***************************************************************************)
(* Model of exampleMocoTrack.cpp: the driver main and the two procedures   *)
(* torqueDrivenMarkerTracking and muscleDrivenStateTracking, statement by  *)
(* statement.  Times are in hundredths of a second (0.81 -> 81), the       *)
(* active-fiber-force width scale in hundredths (1.5 -> 150).  Strings     *)
(* that the code searches (component paths) are sequences of characters.   *)
(* The toolkit is the environment: the contents of the model file, the     *)
(* status of a returned solution and whether a call throws are chosen      *)
(* nondeterministically.                                                   *)
(***************************************************************************)
EXTENDS Integers, Sequences, FiniteSets, TLC

VARIABLES pc, stack, returned, exit, thrownAt, track, markerWeights,
          modelProcessor, moco, model, iter, solution, log, baseComponents,
          handed

vars == <<pc, stack, returned, exit, thrownAt, track, markerWeights,
          modelProcessor, moco, model, iter, solution, log, baseComponents, handed>>

\* Largest number of components in the model file the runs are checked on.
MaxComponents == 3

Torque == "torqueDrivenMarkerTracking"
Muscle == "muscleDrivenStateTracking"
Procs == {Torque, Muscle}

(***************************************************************************)
(* Strings searched by the code, as character sequences.                   *)
(***************************************************************************)
Pelvis == <<"p","e","l","v","i","s">>

PathPelvisTx == <<"/","f","o","r","c","e","s","e","t","/","p","e","l","v","i","s","_","t","x">>
PathPelvisTilt == <<"/","f","o","r","c","e","s","e","t","/","t","a","u","_","p","e","l","v","i","s","_","t","i","l","t">>
PathUpperPelvis == <<"/","f","o","r","c","e","s","e","t","/","P","e","l","v","i","s","_","l","i","s","t">>
PathHip == <<"/","f","o","r","c","e","s","e","t","/","r","e","s","e","r","v","e","_","h","i","p","_","r">>
PathPelvi == <<"/","f","o","r","c","e","s","e","t","/","p","e","l","v","i">>
PathPelvisParent == <<"/","p","e","l","v","i","s","/","a","c","t","_","t","y">>
PathBodyPelvis == <<"/","b","o","d","y","s","e","t","/","p","e","l","v","i","s">>
PathMusclePelvis == <<"/","f","o","r","c","e","s","e","t","/","p","e","l","v","i","s","_","m">>

CoordinateActuatorT == "CoordinateActuator"
BodyT == "Body"
DefaultMuscleT == "Millard2012EquilibriumMuscle"
DGFMuscleT == "DeGrooteFregly2016Muscle"
MuscleTypes == {DefaultMuscleT, DGFMuscleT}

\* A component as read from the model file: muscle properties at defaults.
Component(path, type) ==
    [path |-> path, type |-> type,
     ignore_passive_fiber_force |-> FALSE, active_force_width_scale |-> 100]

\* Components a model file may contain.
ComponentUniverse ==
    { Component(PathPelvisTx, CoordinateActuatorT),
      Component(PathPelvisTilt, CoordinateActuatorT),
      Component(PathUpperPelvis, CoordinateActuatorT),
      Component(PathHip, CoordinateActuatorT),
      Component(PathPelvi, CoordinateActuatorT),
      Component(PathPelvisParent, CoordinateActuatorT),
      Component(PathBodyPelvis, BodyT),
      Component(PathMusclePelvis, DefaultMuscleT) }

\* Component lists of at most n components with pairwise different paths.
ComponentLists(n) ==
    UNION { { s \in [1..k -> ComponentUniverse] :
                \A i, j \in 1..k : i # j => s[i].path # s[j].path } : k \in 0..n }

(***************************************************************************)
(* std::string::find(pattern): the first position (0-based) at which the   *)
(* pattern occurs, scanning from the left, or npos.                        *)
(***************************************************************************)
npos == -1

MatchesAt(s, pat, pos) ==
    /\ pos + Len(pat) <= Len(s)
    /\ \A k \in 1..Len(pat) : s[pos + k] = pat[k]

RECURSIVE FindFrom(_, _, _)
FindFrom(s, pat, pos) ==
    IF pos + Len(pat) > Len(s) THEN npos
    ELSE IF MatchesAt(s, pat, pos) THEN pos
    ELSE FindFrom(s, pat, pos + 1)

\* A search whose comparison stops one character short of the pattern.
FindShort(s, pat) == FindFrom(s, SubSeq(pat, 1, Len(pat) - 1), 0)

Find(s, pat) == FindFrom(s, pat, 0)

(***************************************************************************)
(* ModelProcessor and ModelOperators.                                      *)
(***************************************************************************)
ModOp(name, file, value) == [name |-> name, file |-> file, value |-> value]

ModOpAddExternalLoads(file) == ModOp("ModOpAddExternalLoads", file, 0)
ModOpRemoveMuscles == ModOp("ModOpRemoveMuscles", "", 0)
ModOpAddReserves(optimalForce) == ModOp("ModOpAddReserves", "", optimalForce)
ModOpReplaceMusclesWithDeGrooteFregly2016 ==
    ModOp("ModOpReplaceMusclesWithDeGrooteFregly2016", "", 0)
ModOpIgnorePassiveFiberForcesDGF == ModOp("ModOpIgnorePassiveFiberForcesDGF", "", 0)
ModOpScaleActiveFiberForceCurveWidthDGF(scale) ==
    ModOp("ModOpScaleActiveFiberForceCurveWidthDGF", "", scale)

ModelProcessor(file) == [base |-> file, ops |-> <<>>]
NoModelProcessor == ModelProcessor("")

\* operator| with the operator put in front of the chain.
PipeFront(mp, op) == [mp EXCEPT !.ops = <<op>> \o @]

\* operator| : append a ModelOperator to the processor's chain.
Pipe(mp, op) == [mp EXCEPT !.ops = Append(@, op)]

ReplaceMuscle(c) ==
    IF c.type \in MuscleTypes THEN [c EXCEPT !.type = DGFMuscleT] ELSE c

IgnorePassive(c) ==
    IF c.type = DGFMuscleT THEN [c EXCEPT !.ignore_passive_fiber_force = TRUE] ELSE c

ScaleWidth(c, scale) ==
    IF c.type = DGFMuscleT THEN [c EXCEPT !.active_force_width_scale = scale] ELSE c

\* One ModelOperator applied to a model.
ApplyOp(m, op) ==
    LET logged == [m EXCEPT !.applied = Append(@, op.name)] IN
    CASE op.name = "ModOpAddExternalLoads" ->
            [logged EXCEPT !.external_loads = op.file]
      [] op.name = "ModOpRemoveMuscles" ->
            [logged EXCEPT !.components =
                SelectSeq(@, LAMBDA c : c.type \notin MuscleTypes)]
      [] op.name = "ModOpAddReserves" ->
            [logged EXCEPT !.reserves = op.value]
      [] op.name = "ModOpReplaceMusclesWithDeGrooteFregly2016" ->
            [logged EXCEPT !.components = [i \in DOMAIN @ |-> ReplaceMuscle(@[i])]]
      [] op.name = "ModOpIgnorePassiveFiberForcesDGF" ->
            [logged EXCEPT !.components = [i \in DOMAIN @ |-> IgnorePassive(@[i])]]
      [] op.name = "ModOpScaleActiveFiberForceCurveWidthDGF" ->
            [logged EXCEPT !.components =
                [i \in DOMAIN @ |-> ScaleWidth(@[i], op.value)]]
      [] OTHER -> logged

RECURSIVE ApplyOps(_, _)
ApplyOps(m, ops) ==
    IF ops = <<>> THEN m ELSE ApplyOps(ApplyOp(m, Head(ops)), Tail(ops))

NoModel == [file |-> "", components |-> <<>>, external_loads |-> "",
            reserves |-> 0, applied |-> <<>>]

\* ModelProcessor::process(): load the base model, apply the chain in order.
Process(mp, comps) ==
    ApplyOps([file |-> mp.base, components |-> comps, external_loads |-> "",
              reserves |-> 0, applied |-> <<>>], mp.ops)

\* model.getComponentList<CoordinateActuator>()
CoordinateActuatorList(m) ==
    SelectSeq(m.components, LAMBDA c : c.type = CoordinateActuatorT)

(***************************************************************************)
(* The MocoTrack tool: a freshly constructed tool has the toolkit's        *)
(* defaults; optional properties are lists of zero or one value.           *)
(***************************************************************************)
NewMocoTrack ==
    [live |-> TRUE, name |-> "", model |-> NoModelProcessor,
     markers_reference |-> "", states_reference |-> "",
     allow_unused_references |-> FALSE,
     markers_global_tracking_weight |-> 1,
     states_global_tracking_weight |-> 1,
     markers_weight_set |-> <<>>,
     track_reference_position_derivatives |-> FALSE,
     initial_time |-> <<>>, final_time |-> <<>>, mesh_interval |-> 2]

NoMocoTrack == [NewMocoTrack EXCEPT !.live = FALSE]

NoMocoStudy == [initialized |-> FALSE, model |-> NoModel,
                initial_time |-> <<>>, final_time |-> <<>>, mesh_interval |-> 0,
                allow_unused_references |-> FALSE,
                control_effort |-> {}]

\* The problem the tool assembles from its settings (MocoTrack::initialize).
Assemble(t, comps) ==
    [initialized |-> TRUE, model |-> Process(t.model, comps),
     initial_time |-> t.initial_time, final_time |-> t.final_time,
     mesh_interval |-> t.mesh_interval,
     allow_unused_references |-> t.allow_unused_references,
     control_effort |-> {}]

\* MocoControlGoal::setWeightForControl: replace or add the control's weight.
SetWeightForControl(weights, path, w) ==
    { e \in weights : e.path # path } \cup { [path |-> path, weight |-> w] }

\* The marker weights appended on lines 90-103, in order.
MarkerWeightTable ==
    << <<"R.ASIS", 20>>, <<"L.ASIS", 20>>, <<"R.PSIS", 20>>, <<"L.PSIS", 20>>,
       <<"R.Knee", 10>>, <<"R.Ankle", 10>>, <<"R.Heel", 10>>, <<"R.MT5", 5>>,
       <<"R.Toe", 2>>, <<"L.Knee", 10>>, <<"L.Ankle", 10>>, <<"L.Heel", 10>>,
       <<"L.MT5", 5>>, <<"L.Toe", 2>> >>

SolutionStatuses == {"success", "sealed"}

Call(proc, obj, fn) == [proc |-> proc, obj |-> obj, fn |-> fn]

Init ==
    /\ pc = "main_call_torque"
    /\ stack = <<"main">>
    /\ returned = {}
    /\ exit = "none"
    /\ thrownAt = ""
    /\ track = [p \in Procs |-> NoMocoTrack]
    /\ markerWeights = <<>>
    /\ modelProcessor = NoModelProcessor
    /\ moco = NoMocoStudy
    /\ model = NoModel
    /\ iter = 0
    /\ solution = [p \in Procs |-> "none"]
    /\ log = <<>>
    /\ baseComponents \in ComponentLists(MaxComponents)
    /\ handed = [p \in Procs |-> NoMocoStudy]

\* Variables that only the driver and the environment own.
Frame(p) == /\ stack' = stack /\ returned' = returned /\ exit' = exit
            /\ thrownAt' = thrownAt /\ baseComponents' = baseComponents
            /\ solution' = solution /\ handed' = handed

\* A call of a property setter or configuration method on the tool of proc.
ToolCall(proc, here, next, fn, newTool) ==
    /\ pc = here
    /\ pc' = next
    /\ track' = [track EXCEPT ![proc] = newTool]
    /\ log' = Append(log, Call(proc, "track", fn))
    /\ Frame(proc)
    /\ UNCHANGED <<markerWeights, modelProcessor, moco, model, iter>>

(***************************************************************************)
(* main                                                                    *)
(***************************************************************************)
\* A driver that starts the second procedure first.
MainCallMuscleFirst ==
    /\ pc = "main_call_torque"
    /\ pc' = "m_construct"
    /\ stack' = Append(stack, Muscle)
    /\ UNCHANGED <<returned, exit, thrownAt, track, markerWeights,
                   modelProcessor, moco, model, iter, solution, log,
                   baseComponents, handed>>

MainCallTorque ==
    /\ pc = "main_call_torque"
    /\ pc' = "t_construct"
    /\ stack' = Append(stack, Torque)
    /\ UNCHANGED <<returned, exit, thrownAt, track, markerWeights,
                   modelProcessor, moco, model, iter, solution, log,
                   baseComponents, handed>>

MainCallMuscle ==
    /\ pc = "main_call_muscle"
    /\ pc' = "m_construct"
    /\ stack' = Append(stack, Muscle)
    /\ UNCHANGED <<returned, exit, thrownAt, track, markerWeights,
                   modelProcessor, moco, model, iter, solution, log,
                   baseComponents, handed>>

MainReturn ==
    /\ pc = "main_return"
    /\ pc' = "done"
    /\ stack' = <<>>
    /\ exit' = "EXIT_SUCCESS"
    /\ UNCHANGED <<returned, thrownAt, track, markerWeights,
                   modelProcessor, moco, model, iter, solution, log,
                   baseComponents, handed>>

(***************************************************************************)
(* torqueDrivenMarkerTracking                                              *)
(***************************************************************************)
TConstruct ==
    /\ pc = "t_construct"
    /\ pc' = "t_setName"
    /\ track' = [track EXCEPT ![Torque] = NewMocoTrack]
    /\ UNCHANGED <<stack, returned, exit, thrownAt, markerWeights,
                   modelProcessor, moco, model, iter, solution, log,
                   baseComponents, handed>>

TSetName ==
    ToolCall(Torque, "t_setName", "t_setModel", "setName",
             [track[Torque] EXCEPT !.name = "torque_driven_marker_tracking"])

TSetModel ==
    ToolCall(Torque, "t_setModel", "t_setMarkersReferenceFromTRC", "setModel",
             [track[Torque] EXCEPT !.model =
                Pipe(Pipe(Pipe(ModelProcessor("subject_walk_armless.osim"),
                               ModOpAddExternalLoads("grf_walk.xml")),
                          ModOpRemoveMuscles),
                     ModOpAddReserves(250))])

\* The reference is set and the scalar parameters are then left out.
TSetMarkersReferenceThenSolve ==
    ToolCall(Torque, "t_setMarkersReferenceFromTRC", "t_solve",
             "setMarkersReferenceFromTRC",
             [track[Torque] EXCEPT !.markers_reference = "marker_trajectories.trc"])

TSetMarkersReferenceFromTRC ==
    ToolCall(Torque, "t_setMarkersReferenceFromTRC", "t_set_allow_unused_references",
             "setMarkersReferenceFromTRC",
             [track[Torque] EXCEPT !.markers_reference = "marker_trajectories.trc"])

TSetAllowUnusedReferences ==
    ToolCall(Torque, "t_set_allow_unused_references",
             "t_set_markers_global_tracking_weight", "set_allow_unused_references",
             [track[Torque] EXCEPT !.allow_unused_references = TRUE])

TSetMarkersGlobalTrackingWeight ==
    ToolCall(Torque, "t_set_markers_global_tracking_weight", "t_markerWeights",
             "set_markers_global_tracking_weight",
             [track[Torque] EXCEPT !.markers_global_tracking_weight = 10])

\* One markerWeights.cloneAndAppend({name, weight}) of lines 90-103.
TCloneAndAppend ==
    /\ pc = "t_markerWeights"
    /\ Len(markerWeights) < Len(MarkerWeightTable)
    /\ markerWeights' = Append(markerWeights,
                               MarkerWeightTable[Len(markerWeights) + 1])
    /\ pc' = IF Len(markerWeights') = Len(MarkerWeightTable)
             THEN "t_set_markers_weight_set" ELSE "t_markerWeights"
    /\ UNCHANGED <<stack, returned, exit, thrownAt, track, modelProcessor,
                   moco, model, iter, solution, log, baseComponents, handed>>

TSetMarkersWeightSet ==
    ToolCall(Torque, "t_set_markers_weight_set", "t_set_initial_time",
             "set_markers_weight_set",
             [track[Torque] EXCEPT !.markers_weight_set = markerWeights])

TSetInitialTime ==
    ToolCall(Torque, "t_set_initial_time", "t_set_final_time", "set_initial_time",
             [track[Torque] EXCEPT !.initial_time = <<81>>])

\* A final time with a digit lost (0.65 for 1.65).
TSetFinalTimeTypo ==
    ToolCall(Torque, "t_set_final_time", "t_set_mesh_interval", "set_final_time",
             [track[Torque] EXCEPT !.final_time = <<65>>])

TSetFinalTime ==
    ToolCall(Torque, "t_set_final_time", "t_set_mesh_interval", "set_final_time",
             [track[Torque] EXCEPT !.final_time = <<165>>])

TSetMeshInterval ==
    ToolCall(Torque, "t_set_mesh_interval", "t_solve", "set_mesh_interval",
             [track[Torque] EXCEPT !.mesh_interval = 5])

\* track.solve(true): the tool assembles the problem, solves it once and
\* visualizes the solution it returns, whatever its status.
TSolve ==
    /\ pc = "t_solve"
    /\ \E status \in SolutionStatuses :
          solution' = [solution EXCEPT ![Torque] = status]
    /\ handed' = [handed EXCEPT ![Torque] = Assemble(track[Torque], baseComponents)]
    /\ log' = Append(log, Call(Torque, "track", "solve"))
    /\ pc' = "t_return"
    /\ UNCHANGED <<stack, returned, exit, thrownAt, track, markerWeights,
                   modelProcessor, moco, model, iter, baseComponents>>

\* End of the procedure: the locals are destroyed, control is back in main.
TReturn ==
    /\ pc = "t_return"
    /\ pc' = "main_call_muscle"
    /\ stack' = SubSeq(stack, 1, Len(stack) - 1)
    /\ returned' = returned \cup {Torque}
    /\ track' = [track EXCEPT ![Torque].live = FALSE]
    /\ UNCHANGED <<exit, thrownAt, markerWeights, modelProcessor, moco, model,
                   iter, solution, log, baseComponents, handed>>

(***************************************************************************)
(* muscleDrivenStateTracking                                               *)
(***************************************************************************)
\* A tool that is shared with the first procedure instead of constructed.
MConstructShared ==
    /\ pc = "m_construct"
    /\ pc' = "m_setName"
    /\ track' = [track EXCEPT ![Muscle] = [track[Torque] EXCEPT !.live = TRUE]]
    /\ UNCHANGED <<stack, returned, exit, thrownAt, markerWeights,
                   modelProcessor, moco, model, iter, solution, log,
                   baseComponents, handed>>

MConstruct ==
    /\ pc = "m_construct"
    /\ pc' = "m_setName"
    /\ track' = [track EXCEPT ![Muscle] = NewMocoTrack]
    /\ UNCHANGED <<stack, returned, exit, thrownAt, markerWeights,
                   modelProcessor, moco, model, iter, solution, log,
                   baseComponents, handed>>

MSetName ==
    ToolCall(Muscle, "m_setName", "m_modelProcessor", "setName",
             [track[Muscle] EXCEPT !.name = "muscle_driven_state_tracking"])

MModelProcessor ==
    /\ pc = "m_modelProcessor"
    /\ pc' = "m_setModel"
    /\ modelProcessor' =
          Pipe(Pipe(Pipe(Pipe(ModelProcessor("subject_walk_armless.osim"),
                              ModOpAddExternalLoads("grf_walk.xml")),
                         ModOpReplaceMusclesWithDeGrooteFregly2016),
                    ModOpIgnorePassiveFiberForcesDGF),
               ModOpScaleActiveFiberForceCurveWidthDGF(150))
    /\ UNCHANGED <<stack, returned, exit, thrownAt, track, markerWeights, moco,
                   model, iter, solution, log, baseComponents, handed>>

MSetModel ==
    ToolCall(Muscle, "m_setModel", "m_setStatesReference", "setModel",
             [track[Muscle] EXCEPT !.model = modelProcessor])

MSetStatesReference ==
    ToolCall(Muscle, "m_setStatesReference", "m_set_states_global_tracking_weight",
             "setStatesReference",
             [track[Muscle] EXCEPT !.states_reference = "coordinates.sto"])

MSetStatesGlobalTrackingWeight ==
    ToolCall(Muscle, "m_set_states_global_tracking_weight",
             "m_set_allow_unused_references", "set_states_global_tracking_weight",
             [track[Muscle] EXCEPT !.states_global_tracking_weight = 10])

\* The flag written with the wrong value.
MSetAllowUnusedReferencesFalse ==
    ToolCall(Muscle, "m_set_allow_unused_references",
             "m_set_track_reference_position_derivatives",
             "set_allow_unused_references",
             [track[Muscle] EXCEPT !.allow_unused_references = FALSE])

MSetAllowUnusedReferences ==
    ToolCall(Muscle, "m_set_allow_unused_references",
             "m_set_track_reference_position_derivatives",
             "set_allow_unused_references",
             [track[Muscle] EXCEPT !.allow_unused_references = TRUE])

MSetTrackReferencePositionDerivatives ==
    ToolCall(Muscle, "m_set_track_reference_position_derivatives",
             "m_set_initial_time", "set_track_reference_position_derivatives",
             [track[Muscle] EXCEPT !.track_reference_position_derivatives = TRUE])

MSetInitialTime ==
    ToolCall(Muscle, "m_set_initial_time", "m_set_final_time", "set_initial_time",
             [track[Muscle] EXCEPT !.initial_time = <<81>>])

MSetFinalTime ==
    ToolCall(Muscle, "m_set_final_time", "m_set_mesh_interval", "set_final_time",
             [track[Muscle] EXCEPT !.final_time = <<165>>])

MSetMeshInterval ==
    ToolCall(Muscle, "m_set_mesh_interval", "m_initialize", "set_mesh_interval",
             [track[Muscle] EXCEPT !.mesh_interval = 8])

\* An initialize that also solves the problem it has assembled.
MInitializeAndSolve ==
    /\ pc = "m_initialize"
    /\ pc' = "m_updGoal"
    /\ moco' = Assemble(track[Muscle], baseComponents)
    /\ log' = Append(Append(log, Call(Muscle, "track", "initialize")),
                     Call(Muscle, "moco", "solve"))
    /\ UNCHANGED <<stack, returned, exit, thrownAt, track, markerWeights,
                   modelProcessor, model, iter, solution, baseComponents, handed>>

\* MocoStudy moco = track.initialize(): the problem is assembled, not solved.
MInitialize ==
    /\ pc = "m_initialize"
    /\ pc' = "m_updGoal"
    /\ moco' = Assemble(track[Muscle], baseComponents)
    /\ log' = Append(log, Call(Muscle, "track", "initialize"))
    /\ UNCHANGED <<stack, returned, exit, thrownAt, track, markerWeights,
                   modelProcessor, model, iter, solution, baseComponents, handed>>

\* moco.updProblem() and problem.updGoal("control_effort"), cast to a
\* MocoControlGoal reference.
MUpdGoal ==
    /\ pc = "m_updGoal"
    /\ pc' = "m_process"
    /\ log' = Append(log, Call(Muscle, "problem", "updGoal"))
    /\ UNCHANGED <<stack, returned, exit, thrownAt, track, markerWeights,
                   modelProcessor, moco, model, iter, solution, baseComponents,
                   handed>>

\* Model model = modelProcessor.process(), then the loop starts at the first
\* CoordinateActuator.
MProcess ==
    /\ pc = "m_process"
    /\ pc' = "m_loop"
    /\ model' = Process(modelProcessor, baseComponents)
    /\ iter' = 1
    /\ log' = Append(log, Call(Muscle, "modelProcessor", "process"))
    /\ UNCHANGED <<stack, returned, exit, thrownAt, track, markerWeights,
                   modelProcessor, moco, solution, baseComponents, handed>>

\* Loop head and the test of line 175 for the current CoordinateActuator.
MLoop ==
    /\ pc = "m_loop"
    /\ LET acts == CoordinateActuatorList(model) IN
         IF iter > Len(acts)
         THEN /\ pc' = "m_solve"
              /\ iter' = iter
         ELSE IF Find(acts[iter].path, Pelvis) # npos
              THEN /\ pc' = "m_setWeightForControl"
                   /\ iter' = iter
              ELSE /\ pc' = "m_loop"
                   /\ iter' = iter + 1
    /\ UNCHANGED <<stack, returned, exit, thrownAt, track, markerWeights,
                   modelProcessor, moco, model, solution, log, baseComponents,
                   handed>>

\* effort.setWeightForControl(coordPath, 10) for the current actuator.
MSetWeightForControl ==
    /\ pc = "m_setWeightForControl"
    /\ pc' = "m_loop"
    /\ LET coordPath == CoordinateActuatorList(model)[iter].path IN
         moco' = [moco EXCEPT !.control_effort =
                     SetWeightForControl(@, coordPath, 10)]
    /\ iter' = iter + 1
    /\ log' = Append(log, Call(Muscle, "effort", "setWeightForControl"))
    /\ UNCHANGED <<stack, returned, exit, thrownAt, track, markerWeights,
                   modelProcessor, model, solution, baseComponents, handed>>

\* A solve that is called again when the solution comes back sealed.
MSolveRetry ==
    /\ pc = "m_solve"
    /\ \E status \in SolutionStatuses :
          /\ solution' = [solution EXCEPT ![Muscle] = status]
          /\ pc' = IF status = "sealed" /\ solution[Muscle] = "none"
                   THEN "m_solve" ELSE "m_visualize"
    /\ handed' = [handed EXCEPT ![Muscle] = moco]
    /\ log' = Append(log, Call(Muscle, "moco", "solve"))
    /\ UNCHANGED <<stack, returned, exit, thrownAt, track, markerWeights,
                   modelProcessor, moco, model, iter, baseComponents>>

\* MocoSolution solution = moco.solve(): one call, whatever it returns.
MSolve ==
    /\ pc = "m_solve"
    /\ \E status \in SolutionStatuses :
          solution' = [solution EXCEPT ![Muscle] = status]
    /\ pc' = "m_visualize"
    /\ handed' = [handed EXCEPT ![Muscle] = moco]
    /\ log' = Append(log, Call(Muscle, "moco", "solve"))
    /\ UNCHANGED <<stack, returned, exit, thrownAt, track, markerWeights,
                   modelProcessor, moco, model, iter, baseComponents>>

MVisualize ==
    /\ pc = "m_visualize"
    /\ pc' = "m_return"
    /\ log' = Append(log, Call(Muscle, "moco", "visualize"))
    /\ UNCHANGED <<stack, returned, exit, thrownAt, track, markerWeights,
                   modelProcessor, moco, model, iter, solution, baseComponents,
                   handed>>

MReturn ==
    /\ pc = "m_return"
    /\ pc' = "main_return"
    /\ stack' = SubSeq(stack, 1, Len(stack) - 1)
    /\ returned' = returned \cup {Muscle}
    /\ track' = [track EXCEPT ![Muscle].live = FALSE]
    /\ UNCHANGED <<exit, thrownAt, markerWeights, modelProcessor, moco, model,
                   iter, solution, log, baseComponents, handed>>

(***************************************************************************)
(* A toolkit call that throws.  Nothing in the file catches: the exception *)
(* leaves main and the run is terminated at that call.                     *)
(***************************************************************************)
ThrowSites ==
    {"t_setMarkersReferenceFromTRC", "t_solve", "m_setStatesReference",
     "m_initialize", "m_updGoal", "m_process", "m_setWeightForControl",
     "m_solve", "m_visualize"}

\* The toolkit call made at a throw site.
CallAt(site) ==
    CASE site = "t_setMarkersReferenceFromTRC" ->
            Call(Torque, "track", "setMarkersReferenceFromTRC")
      [] site = "t_solve" -> Call(Torque, "track", "solve")
      [] site = "m_setStatesReference" -> Call(Muscle, "track", "setStatesReference")
      [] site = "m_initialize" -> Call(Muscle, "track", "initialize")
      [] site = "m_updGoal" -> Call(Muscle, "problem", "updGoal")
      [] site = "m_process" -> Call(Muscle, "modelProcessor", "process")
      [] site = "m_setWeightForControl" -> Call(Muscle, "effort", "setWeightForControl")
      [] site = "m_solve" -> Call(Muscle, "moco", "solve")
      [] site = "m_visualize" -> Call(Muscle, "moco", "visualize")

\* A driver that catches the exception of the first procedure and goes on.
ThrowCaughtInMain ==
    /\ pc \in ThrowSites
    /\ thrownAt' = pc
    /\ log' = Append(log, CallAt(pc))
    /\ IF Len(stack) > 1 /\ stack[Len(stack)] = Torque
       THEN /\ pc' = "main_call_muscle"
            /\ stack' = <<"main">>
       ELSE /\ pc' = "terminated"
            /\ stack' = stack
    /\ UNCHANGED <<returned, exit, track, markerWeights, modelProcessor, moco,
                   model, iter, solution, baseComponents, handed>>

Throw ==
    /\ pc \in ThrowSites
    /\ pc' = "terminated"
    /\ thrownAt' = pc
    /\ log' = Append(log, CallAt(pc))
    /\ UNCHANGED <<stack, returned, exit, track, markerWeights, modelProcessor,
                   moco, model, iter, solution, baseComponents, handed>>

Next ==
    \/ MainCallTorque \/ MainCallMuscle \/ MainReturn
    \/ TConstruct \/ TSetName \/ TSetModel \/ TSetMarkersReferenceFromTRC
    \/ TSetAllowUnusedReferences \/ TSetMarkersGlobalTrackingWeight
    \/ TCloneAndAppend \/ TSetMarkersWeightSet \/ TSetInitialTime
    \/ TSetFinalTime \/ TSetMeshInterval \/ TSolve \/ TReturn
    \/ MConstruct \/ MSetName \/ MModelProcessor \/ MSetModel
    \/ MSetStatesReference \/ MSetStatesGlobalTrackingWeight
    \/ MSetAllowUnusedReferences \/ MSetTrackReferencePositionDerivatives
    \/ MSetInitialTime \/ MSetFinalTime \/ MSetMeshInterval \/ MInitialize
    \/ MUpdGoal \/ MProcess \/ MLoop \/ MSetWeightForControl \/ MSolve
    \/ MVisualize \/ MReturn
    \/ Throw

Spec == Init /\ [][Next]_vars

(***************************************************************************)
(* Helpers for the properties.                                             *)
(***************************************************************************)
\* Positions in the log of the calls of fn on obj made by proc.
Positions(proc, obj, fn) ==
    { i \in 1..Len(log) : log[i] = Call(proc, obj, fn) }

\* Positions of the solver invocations made by proc.
SolvePositions(proc) ==
    { i \in 1..Len(log) : log[i].proc = proc /\ log[i].fn = "solve" }

\* The setters of the MocoTrack tool.
ToolSetters ==
    {"setName", "setModel", "setMarkersReferenceFromTRC", "setStatesReference",
     "set_allow_unused_references", "set_markers_global_tracking_weight",
     "set_states_global_tracking_weight", "set_markers_weight_set",
     "set_track_reference_position_derivatives", "set_initial_time",
     "set_final_time", "set_mesh_interval"}

\* The call with which proc hands its problem to the toolkit.
HandoverFn(proc) == IF proc = Torque THEN "solve" ELSE "initialize"
ReferenceSetter(proc) ==
    IF proc = Torque THEN "setMarkersReferenceFromTRC" ELSE "setStatesReference"

\* s contains pat as a contiguous substring.
Contains(s, pat) ==
    \E i \in 1..(Len(s) - Len(pat) + 1) : SubSeq(s, i, i + Len(pat) - 1) = pat

Range(f) == { f[i] : i \in DOMAIN f }

(***************************************************************************)
(* C1: in both procedures the model is set first, then the reference data, *)
(* then initial_time, final_time and mesh_interval, and only then is the   *)
(* problem handed over (track.solve, or track.initialize followed by       *)
(* moco.solve); no setter of the tool is called after the hand-over.       *)
(***************************************************************************)
C1_ConfigureBeforeHandover ==
    /\ \A p \in Procs : \A h \in Positions(p, "track", HandoverFn(p)) :
          /\ \E m \in Positions(p, "track", "setModel") :
             \E r \in Positions(p, "track", ReferenceSetter(p)) :
             \E i \in Positions(p, "track", "set_initial_time") :
             \E f \in Positions(p, "track", "set_final_time") :
             \E d \in Positions(p, "track", "set_mesh_interval") :
                /\ m < r
                /\ r < i /\ r < f /\ r < d
                /\ i < h /\ f < h /\ d < h
          /\ \A j \in (h + 1)..Len(log) :
                ~(log[j].proc = p /\ log[j].obj = "track" /\ log[j].fn \in ToolSetters)
    /\ \A s \in Positions(Muscle, "moco", "solve") :
          \E h \in Positions(Muscle, "track", "initialize") : h < s

C1_Witness ==
    /\ pc = "done"
    /\ Positions(Torque, "track", "solve") # {}
    /\ Positions(Muscle, "track", "initialize") # {}
    /\ Positions(Muscle, "moco", "solve") # {}

(***************************************************************************)
(* C2: each procedure invokes the solver exactly once, whatever status the *)
(* solver returns; nothing is solved twice, and a complete run of main has *)
(* performed exactly two solves.                                           *)
(***************************************************************************)
C2_OneSolveEach ==
    /\ \A p \in Procs :
          /\ Cardinality(SolvePositions(p)) <= 1
          /\ p \in returned => Cardinality(SolvePositions(p)) = 1
    /\ pc = "done" =>
          Cardinality({ i \in 1..Len(log) : log[i].fn = "solve" }) = 2

C2_Witness ==
    /\ pc = "done"
    /\ solution[Torque] = "sealed"
    /\ solution[Muscle] = "sealed"
    /\ Cardinality(SolvePositions(Torque)) = 1
    /\ Cardinality(SolvePositions(Muscle)) = 1

(***************************************************************************)
(* C3 as stated: in muscleDrivenStateTracking the problem is solved once   *)
(* before the control-effort weights are post-processed and solved again   *)
(* afterwards.                                                             *)
(***************************************************************************)
C3_SolvedBeforeAndAfter ==
    pc = "m_return" =>
        \E i \in SolvePositions(Muscle) :
        \E j \in Positions(Muscle, "modelProcessor", "process") :
        \E k \in SolvePositions(Muscle) : i < j /\ j < k

(***************************************************************************)
(* C3 amended: the control-effort weights are post-processed after         *)
(* track.initialize has assembled the problem and before any solve of it;  *)
(* the problem is solved once, after the weights have been adjusted.       *)
(***************************************************************************)
C3_InitializeThenAdjustThenSolve ==
    /\ \A j \in Positions(Muscle, "effort", "setWeightForControl") :
          /\ \E h \in Positions(Muscle, "track", "initialize") : h < j
          /\ \A s \in SolvePositions(Muscle) : j < s
    /\ \A j \in Positions(Muscle, "modelProcessor", "process") :
          \A s \in SolvePositions(Muscle) : j < s
    /\ pc = "m_return" => Cardinality(SolvePositions(Muscle)) = 1

C3_Witness ==
    /\ pc = "m_return"
    /\ Positions(Muscle, "effort", "setWeightForControl") # {}
    /\ SolvePositions(Muscle) # {}

(***************************************************************************)
(* C4: when moco.solve is called, the control_effort goal carries weight   *)
(* 10 for exactly the CoordinateActuators of the processed model whose     *)
(* absolute path contains "pelvis" (anywhere, case-sensitive); no weight   *)
(* was set for any other actuator or for a component of another type.      *)
(***************************************************************************)
PelvisActuatorPaths ==
    { c.path : c \in { x \in Range(Process(modelProcessor, baseComponents).components) :
                          x.type = CoordinateActuatorT /\ Contains(x.path, Pelvis) } }

C4_PelvisWeights ==
    /\ pc = "m_solve" =>
          /\ moco.control_effort =
                { [path |-> q, weight |-> 10] : q \in PelvisActuatorPaths }
          /\ Cardinality(Positions(Muscle, "effort", "setWeightForControl"))
                = Cardinality(PelvisActuatorPaths)
    /\ handed[Muscle].initialized =>
          handed[Muscle].control_effort =
                { [path |-> q, weight |-> 10] : q \in PelvisActuatorPaths }

C4_Witness ==
    /\ pc = "m_solve"
    /\ PathPelvisTilt \in PelvisActuatorPaths
    /\ \E c \in Range(model.components) :
          c.type = CoordinateActuatorT /\ c.path \notin PelvisActuatorPaths
    /\ \E c \in Range(model.components) :
          c.type # CoordinateActuatorT /\ Contains(c.path, Pelvis)
    /\ moco.control_effort # {}

(***************************************************************************)
(* C5: a failure raised by a toolkit call is never caught or retried: the  *)
(* run ends at that call; when the failing call is in                      *)
(* torqueDrivenMarkerTracking, muscleDrivenStateTracking is never started; *)
(* main returns EXIT_SUCCESS only when no call failed.                     *)
(***************************************************************************)
C5_FailureEndsRun ==
    /\ thrownAt # "" =>
          /\ pc = "terminated"
          /\ exit = "none"
          /\ log[Len(log)] = CallAt(thrownAt)
    /\ thrownAt \in {"t_setMarkersReferenceFromTRC", "t_solve"} =>
          /\ track[Muscle] = NoMocoTrack
          /\ \A i \in 1..Len(log) : log[i].proc # Muscle
          /\ Muscle \notin Range(stack)
    /\ exit = "EXIT_SUCCESS" => thrownAt = "" /\ returned = Procs

C5_Witness ==
    /\ pc = "terminated"
    /\ thrownAt = "t_solve"
    /\ exit = "none"

(***************************************************************************)
(* C6: in both procedures allow_unused_references is set to true after the *)
(* reference data was set, is true when the tool assembles the problem,    *)
(* and is never set back to false.                                         *)
(***************************************************************************)
C6_AllowUnusedReferences ==
    \A p \in Procs :
       /\ \A a \in Positions(p, "track", "set_allow_unused_references") :
             /\ \E r \in Positions(p, "track", ReferenceSetter(p)) : r < a
             /\ track[p].allow_unused_references = TRUE
       /\ \A h \in Positions(p, "track", HandoverFn(p)) :
             \E a \in Positions(p, "track", "set_allow_unused_references") : a < h
       /\ handed[p].initialized => handed[p].allow_unused_references = TRUE
       /\ (p = Muscle /\ moco.initialized) => moco.allow_unused_references = TRUE

C6_Witness ==
    /\ handed[Torque].initialized
    /\ moco.initialized
    /\ handed[Muscle].initialized

(***************************************************************************)
(* C7: the model operators are applied in the order they are appended:     *)
(* AddExternalLoads, RemoveMuscles, AddReserves(250) in the first          *)
(* procedure, so reserves are added after the muscles are gone;            *)
(* AddExternalLoads, ReplaceMusclesWithDeGrooteFregly2016,                 *)
(* IgnorePassiveFiberForcesDGF, ScaleActiveFiberForceCurveWidthDGF(1.5) in *)
(* the second, so the DeGrooteFregly2016-only operators act on replaced    *)
(* muscles.                                                                *)
(***************************************************************************)
BaseMusclePaths ==
    { c.path : c \in { x \in Range(baseComponents) : x.type \in MuscleTypes } }

MuscleChainApplied(m) ==
    /\ m.file = "subject_walk_armless.osim"
    /\ m.applied = <<"ModOpAddExternalLoads",
                     "ModOpReplaceMusclesWithDeGrooteFregly2016",
                     "ModOpIgnorePassiveFiberForcesDGF",
                     "ModOpScaleActiveFiberForceCurveWidthDGF">>
    /\ \A q \in BaseMusclePaths : \E c \in Range(m.components) :
          /\ c.path = q
          /\ c.type = DGFMuscleT
          /\ c.ignore_passive_fiber_force = TRUE
          /\ c.active_force_width_scale = 150

C7_OperatorOrder ==
    /\ handed[Torque].initialized =>
          /\ handed[Torque].model.file = "subject_walk_armless.osim"
          /\ handed[Torque].model.applied =
                <<"ModOpAddExternalLoads", "ModOpRemoveMuscles", "ModOpAddReserves">>
          /\ handed[Torque].model.reserves = 250
          /\ \A c \in Range(handed[Torque].model.components) :
                c.type \notin MuscleTypes
    /\ moco.initialized => MuscleChainApplied(moco.model)
    /\ pc \in {"m_loop", "m_setWeightForControl", "m_solve"} =>
          MuscleChainApplied(model)

C7_Witness ==
    /\ pc = "m_solve"
    /\ BaseMusclePaths # {}
    /\ handed[Torque].initialized
    /\ moco.initialized

(***************************************************************************)
(* C8: muscleDrivenStateTracking builds its own tool and model processor   *)
(* and reads nothing of the first procedure: the configuration it hands to *)
(* the toolkit is one fixed value, whatever the first procedure configured *)
(* and whatever solution it obtained.                                      *)
(***************************************************************************)
MuscleConfiguration ==
    [live |-> TRUE, name |-> "muscle_driven_state_tracking",
     model |-> [base |-> "subject_walk_armless.osim",
                ops |-> << ModOpAddExternalLoads("grf_walk.xml"),
                           ModOpReplaceMusclesWithDeGrooteFregly2016,
                           ModOpIgnorePassiveFiberForcesDGF,
                           ModOpScaleActiveFiberForceCurveWidthDGF(150) >>],
     markers_reference |-> "", states_reference |-> "coordinates.sto",
     allow_unused_references |-> TRUE,
     markers_global_tracking_weight |-> 1,
     states_global_tracking_weight |-> 10,
     markers_weight_set |-> <<>>,
     track_reference_position_derivatives |-> TRUE,
     initial_time |-> <<81>>, final_time |-> <<165>>, mesh_interval |-> 8]

C8_Independent ==
    /\ moco.initialized =>
          /\ [track[Muscle] EXCEPT !.live = TRUE] = MuscleConfiguration
          /\ modelProcessor = MuscleConfiguration.model
          /\ track[Muscle] # [track[Torque] EXCEPT !.live = track[Muscle].live]
    /\ handed[Muscle].initialized =>
              /\ handed[Muscle].initial_time = MuscleConfiguration.initial_time
              /\ handed[Muscle].final_time = MuscleConfiguration.final_time
              /\ handed[Muscle].mesh_interval = MuscleConfiguration.mesh_interval
              /\ handed[Muscle].model =
                    Process(MuscleConfiguration.model, baseComponents)

C8_Witness ==
    /\ handed[Muscle].initialized
    /\ solution[Torque] = "sealed"
    /\ track[Torque].markers_weight_set # <<>>
    /\ track[Torque].mesh_interval # track[Muscle].mesh_interval

(***************************************************************************)
(* C9: main runs the two procedures strictly one after the other:          *)
(* muscleDrivenStateTracking starts only after torqueDrivenMarkerTracking  *)
(* has solved and returned, EXIT_SUCCESS is returned only after            *)
(* muscleDrivenStateTracking has returned, and the two never overlap.      *)
(***************************************************************************)
C9_Sequential ==
    /\ (Muscle \in Range(stack) \/ track[Muscle] # NoMocoTrack) =>
          /\ Torque \in returned
          /\ Torque \notin Range(stack)
          /\ SolvePositions(Torque) # {}
    /\ ~(track[Torque].live /\ track[Muscle].live)
    /\ \A i, j \in 1..Len(log) :
          (log[i].proc = Torque /\ log[j].proc = Muscle) => i < j
    /\ exit = "EXIT_SUCCESS" => returned = Procs /\ stack = <<>>
    /\ Len(stack) <= 2

C9_Witness ==
    /\ pc = "done"
    /\ exit = "EXIT_SUCCESS"
    /\ returned = Procs

(***************************************************************************)
(* C10: at the hand-over both problems have the window 0.81 .. 1.65        *)
(* (81 < 165 in hundredths) and a mesh interval that is positive and       *)
(* smaller than the window length: 5 < 84 and 8 < 84.                      *)
(***************************************************************************)
WindowOk(study, mesh) ==
    /\ study.initial_time = <<81>>
    /\ study.final_time = <<165>>
    /\ study.initial_time[1] < study.final_time[1]
    /\ study.mesh_interval = mesh
    /\ 0 < study.mesh_interval
    /\ study.mesh_interval < study.final_time[1] - study.initial_time[1]

C10_TimeWindow ==
    /\ handed[Torque].initialized => WindowOk(handed[Torque], 5)
    /\ moco.initialized => WindowOk(moco, 8)
    /\ handed[Muscle].initialized => WindowOk(handed[Muscle], 8)
    /\ (handed[Torque].initialized /\ handed[Muscle].initialized) =>
          /\ handed[Torque].initial_time = handed[Muscle].initial_time
          /\ handed[Torque].final_time = handed[Muscle].final_time

C10_Witness ==
    /\ handed[Torque].initialized
    /\ handed[Muscle].initialized
    /\ handed[Torque].mesh_interval = 5
    /\ handed[Muscle].mesh_interval = 8

====
